---------------------------- MODULE Spec2Model ----------------------------
(***************************************************************************)
(* Model of app/settings.py: the AiHubMix patch (_apply_aihubmix_patch)    *)
(* that rewraps genai.Client.__init__, AsyncFiles.upload and               *)
(* AsyncModels.generate_content.                                           *)
(*                                                                         *)
(* Strings that the code computes on (URLs) are tuples of one-character    *)
(* strings; strings that are only passed around (keys, tags) are TLA+      *)
(* strings.  Function objects of the library are modelled by what wraps    *)
(* them: a chain of installer-run ids, the original being the empty chain. *)
(***************************************************************************)
EXTENDS Integers, Sequences, FiniteSets, TLC

VARIABLES
    settings,        \* the EpicSettings object: GEMINI_API_KEY, GEMINI_BASE_URL, GEMINI_MODEL
    Client_init,     \* genai.Client.__init__: chain of new_init wrappers, innermost first
    AsyncFiles_upload,   \* genai.files.AsyncFiles.upload: 0 = original, k = patched_upload of run k
    AsyncModels_generate_content, \* chain of patched_generate wrappers, innermost first
    file_cache,      \* file_cache[k]: the dict closed over by the pair of installer run k
    library,         \* the installed google-genai package: the first thing of it that is missing
    last_install,    \* the latest completed call of _apply_aihubmix_patch
    clients,         \* one record per call of genai.Client(...): what the original __init__ received
    pending,         \* patched_upload calls suspended at "await content"
    returned,        \* what upload calls have returned to their callers
    last_generate,   \* the generate_content call in flight: its request, and what the
                     \* original implementation received; NoCall when none is in flight
    last_error       \* the latest library call that ended in an exception: what was
                     \* raised and what its caller got; NoError when none has

vars == <<settings, Client_init, AsyncFiles_upload, AsyncModels_generate_content,
          file_cache, library, last_install, clients, pending, returned, last_generate,
          last_error>>

-----------------------------------------------------------------------------
(* Bounds of the model. *)
MaxInstalls == 2
MaxClients == 2
MaxPieces == 3
MaxAddr == 2
MaxPending == 2
MaxParts == 1

-----------------------------------------------------------------------------
(* Python string operations used by new_init. *)

\* str.endswith(suffix)
EndsWith(s, suffix) ==
    /\ Len(s) >= Len(suffix)
    /\ SubSeq(s, Len(s) - Len(suffix) + 1, Len(s)) = suffix

\* line 92 without the rstrip
RStripNothing(s, ch) == s

\* str.rstrip(ch): removes every trailing occurrence of ch
RECURSIVE RStrip(_, _)
RStrip(s, ch) ==
    IF Len(s) > 0 /\ s[Len(s)] = ch THEN RStrip(SubSeq(s, 1, Len(s) - 1), ch) ELSE s

\* s[:-n]
DropLast(s, n) == SubSeq(s, 1, IF Len(s) >= n THEN Len(s) - n ELSE 0)

SLASH_V1 == <<"/", "v", "1">>
SLASH_GEMINI == <<"/", "g", "e", "m", "i", "n", "i">>

\* line 93, "base_url[:-3]" with a wrong slice width
StripV1Short(base_url) ==
    IF EndsWith(base_url, SLASH_V1) THEN DropLast(base_url, 2) ELSE base_url

\* line 93: if base_url.endswith('/v1'): base_url = base_url[:-3]
StripV1(base_url) ==
    IF EndsWith(base_url, SLASH_V1) THEN DropLast(base_url, 3) ELSE base_url

\* line 94 without its guard: '/gemini' appended on every construction
AppendGeminiAlways(base_url) == base_url \o SLASH_GEMINI

\* line 94: if not base_url.endswith('/gemini'): base_url = f"{base_url}/gemini"
AppendGemini(base_url) ==
    IF ~EndsWith(base_url, SLASH_GEMINI) THEN base_url \o SLASH_GEMINI ELSE base_url

\* lines 92-94: the endpoint new_init computes from settings.GEMINI_BASE_URL
Normalize(base_url) == AppendGemini(StripV1(RStrip(base_url, "/")))

-----------------------------------------------------------------------------
(* Settings. *)

NoneKey == [kind |-> "NoneType", value |-> ""]
SecretStr(v) == [kind |-> "SecretStr", value |-> v]
PlainStr(v) == [kind |-> "str", value |-> v]

\* the values settings.GEMINI_API_KEY can hold (lines 29-32)
ApiKeys == {NoneKey, SecretStr(""), SecretStr("sk-cfg"), PlainStr("sk-cfg")}

\* bool(key): None is false, and so is an empty str or SecretStr (their len is 0)
Truthy(key) == key.kind # "NoneType" /\ key.value # ""

\* str(key): a SecretStr prints masked
PyStr(key) ==
    CASE key.kind = "SecretStr" -> "**********"
      [] key.kind = "NoneType" -> "None"
      [] OTHER -> key.value

\* lines 84-87
ApiKeyPlaintext(key) ==
    IF key.kind = "SecretStr" THEN key.value ELSE PyStr(key)

AIHUBMIX == <<"h", "t", "t", "p", "s", ":", "/", "/", "a", "i", "h", "u", "b",
              "m", "i", "x", ".", "c", "o", "m">>

\* base URLs the configuration is given in the runs of the whole program
BaseUrls == { AIHUBMIX \o <<"/">>,
              AIHUBMIX \o SLASH_V1,
              AIHUBMIX \o SLASH_GEMINI,
              AIHUBMIX \o <<"/", "v", "2", "/", "/">> }

GEMINI_MODEL == "gemini-2.5-pro"

-----------------------------------------------------------------------------
(* Python dicts as functions. *)

EmptyDict == [x \in {} |-> 0]

\* d[k] = v
DictSet(d, k, v) == [x \in DOMAIN d \cup {k} |-> IF x = k THEN v ELSE d[x]]

-----------------------------------------------------------------------------
(* Exceptions and the installer's try blocks. *)

\* the classes an exception is an instance of
Mro(exc) ==
    CASE exc = "ModuleNotFoundError" ->
            {"ModuleNotFoundError", "ImportError", "Exception", "BaseException"}
      [] exc = "ImportError" -> {"ImportError", "Exception", "BaseException"}
      [] exc = "AttributeError" -> {"AttributeError", "Exception", "BaseException"}
      [] OTHER -> {"BaseException"}

IsInstance(exc, cls) == cls \in Mro(exc)

\* The statements of _apply_aihubmix_patch that touch the library, in order.
\* line 121 moved below line 131: the upload entry point is replaced before the
\* original generate_content is looked up
StepsUploadFirst == << "import_genai", "import_types", "read_Client_init",
                       "set_Client_init", "import_contents_to_list", "set_upload",
                       "read_generate_content", "set_generate_content" >>

\* the statements of the installer that can fail or that replace an entry point
Steps == << "import_genai",            \* line 77
            "import_types",            \* line 78
            "read_Client_init",        \* line 81
            "set_Client_init",         \* line 100
            "import_contents_to_list", \* line 105
            "read_generate_content",   \* line 121
            "set_upload",              \* line 131
            "set_generate_content" >>  \* line 132

StepNo(name) == CHOOSE i \in DOMAIN Steps : Steps[i] = name

\* What a step raises when the thing it needs is missing.  Assigning an attribute
\* of a class that an earlier step has already resolved (lines 100, 132) cannot raise.
Raises(name) ==
    CASE name = "import_genai" -> {"ModuleNotFoundError"}
      [] name = "import_types" -> {"ImportError"}
      [] name = "read_Client_init" -> {"AttributeError"}
      [] name = "import_contents_to_list" -> {"ImportError", "ModuleNotFoundError"}
      [] name = "read_generate_content" -> {"AttributeError"}
      [] name = "set_upload" -> {"AttributeError"}
      [] OTHER -> {}

NoFailure == [step |-> 0, exc |-> "none"]

\* The states the installed package can be in: complete, or with a first missing piece.
Libraries ==
    {NoFailure} \cup
    UNION { { [step |-> i, exc |-> e] : e \in Raises(Steps[i]) } : i \in DOMAIN Steps }

\* the optional pair in a try block of its own, after the constructor's, so that it
\* is attempted although reading genai.Client.__init__ failed
DonePairApart(name, lib) ==
    \/ lib.step = 0
    \/ StepNo(name) < lib.step
    \/ lib.step = StepNo("read_Client_init") /\ StepNo(name) > StepNo("set_Client_init")

\* the named step of the installer ran to completion: every step before the first
\* failing one does, none after it (lines 75-133 are straight-line code in a try)
Done(name, lib) == lib.step = 0 \/ StepNo(name) < lib.step

\* line 140 catching too little
OuterExceptNarrow == "ImportError"

\* line 140: except Exception
OuterExcept == "Exception"

\* line 135: except ImportError
InnerExcept == "ImportError"

\* lines 103-133: the statements inside the inner try
InInnerTry(step) == step >= StepNo("import_contents_to_list")

Info(msg) == [level |-> "INFO", msg |-> msg]
Warning(msg) == [level |-> "WARNING", msg |-> msg]
Error(msg) == [level |-> "ERROR", msg |-> msg]

\* lines 75-142: which handler takes the failure, what it logs, what escapes
Handled(lib) ==
    IF lib.step = 0
    THEN [log |-> <<Info("bypass loaded")>>, raised |-> "none"]             \* line 133
    ELSE IF InInnerTry(lib.step) /\ IsInstance(lib.exc, InnerExcept)
    THEN [log |-> <<Warning("bypass failed"), Warning("native upload")>>,  \* lines 137-138
          raised |-> "none"]
    ELSE IF IsInstance(lib.exc, OuterExcept)
    THEN [log |-> <<Error("patch failed completely")>>, raised |-> "none"] \* line 142
    ELSE [log |-> <<>>, raised |-> lib.exc]

EntryPoints ==
    [init |-> Client_init, upload |-> AsyncFiles_upload,
     generate |-> AsyncModels_generate_content]

Originals == [init |-> <<>>, upload |-> 0, generate |-> <<>>]

\* line 72 without the guard
PatchEnabledAlways(key) == TRUE

\* lines 72-73: if not settings.GEMINI_API_KEY: return
PatchEnabled(key) == Truthy(key)

\* lines 81-100 placed after the optional pair, inside its try
CtorStepLate == "set_generate_content"

\* line 100: genai.Client.__init__ = new_init comes before the optional pair
CtorStep == "set_Client_init"

\* lines 71-142: _apply_aihubmix_patch()
Install ==
    /\ last_install.run < MaxInstalls
    /\ LET k == last_install.run + 1
           on == PatchEnabled(settings.GEMINI_API_KEY)
           h == Handled(library)
       IN /\ Client_init' =
                IF on /\ Done(CtorStep, library)
                THEN Append(Client_init, k) ELSE Client_init
          /\ file_cache' =
                IF on /\ Done("import_contents_to_list", library)
                THEN [file_cache EXCEPT ![k] = EmptyDict] ELSE file_cache   \* line 107
          /\ AsyncFiles_upload' =
                IF on /\ Done("set_upload", library) THEN k ELSE AsyncFiles_upload
          /\ AsyncModels_generate_content' =
                IF on /\ Done("set_generate_content", library)
                THEN Append(AsyncModels_generate_content, k)
                ELSE AsyncModels_generate_content
          /\ last_install' =
                [run |-> k, enabled |-> on,
                 log |-> IF on THEN h.log ELSE <<>>,
                 raised |-> IF on THEN h.raised ELSE "none",
                 before |-> EntryPoints]
    /\ UNCHANGED <<settings, library, clients, pending, returned, last_generate,
                   last_error>>

\* the configuration source changes the base URL (settings is a mutable object)
SetBaseUrl(urls) ==
    \E u \in urls \ {settings.GEMINI_BASE_URL} :
        /\ settings' = [settings EXCEPT !.GEMINI_BASE_URL = u]
        /\ UNCHANGED <<Client_init, AsyncFiles_upload, AsyncModels_generate_content,
                       file_cache, library, last_install, clients, pending, returned,
                       last_generate,
                   last_error>>

-----------------------------------------------------------------------------
(* Exceptions of the calls that go through the wrappers. *)

NoError == [call |-> "none", raised |-> "none", reached |-> "none", calls |-> 0]

\* what the original implementations and a local read raise
InitErrors == {"ValueError"}
GenerateErrors == {"APIError"}
ReadErrors == {"OSError"}
CancelledError == "CancelledError"

\* a wrapper with the delegating call in a try block whose handler logs and goes on
DelegateSwallows(outcome) == [reached |-> "none", calls |-> outcome.calls]

\* lines 98, 129: the wrapper calls the function it replaced once, as its last
\* statement and in no try block; what that call raises leaves the wrapper as it is
Delegate(outcome) == outcome

\* the exception on its way out through a chain of wrappers
RECURSIVE Unwind(_, _)
Unwind(chain, outcome) ==
    IF chain = <<>> THEN outcome ELSE Unwind(Tail(chain), Delegate(outcome))

\* a call that entered the original implementation through chain, which raised exc
Failure(call, chain, exc) ==
    LET o == Unwind(chain, [reached |-> exc, calls |-> 1])
    IN [call |-> call, raised |-> exc, reached |-> o.reached, calls |-> o.calls]

\* lines 109-119: patched_upload has no try block and never calls the original upload
UploadFailure(exc) == [call |-> "upload", raised |-> exc, reached |-> exc, calls |-> 0]

-----------------------------------------------------------------------------
(* Client construction. *)

HttpOptions(base_url) == [base_url |-> base_url]

\* what the library offers once the step that looks for it would succeed
ClientAvailable == Done("read_Client_init", library)
AsyncFilesAvailable == Done("import_types", library) /\ library.step # StepNo("set_upload")
AsyncModelsAvailable ==
    Done("import_types", library) /\ library.step # StepNo("read_generate_content")

\* keyword arguments callers pass to genai.Client(...)
CallerKwargs ==
    { EmptyDict,
      [api_key |-> "sk-caller"],
      [api_key |-> "sk-caller", http_options |-> HttpOptions(<<"c">>)],
      [http_options |-> HttpOptions(<<"c">>), vertexai |-> FALSE] }

\* new_init with kwargs.setdefault('api_key', ...) in place of line 89
NewInitKeepsCallerKey(kwargs) ==
    LET api_key == ApiKeyPlaintext(settings.GEMINI_API_KEY)
        k1 == IF "api_key" \in DOMAIN kwargs THEN kwargs
              ELSE DictSet(kwargs, "api_key", api_key)
    IN DictSet(k1, "http_options", HttpOptions(Normalize(settings.GEMINI_BASE_URL)))

\* new_init with kwargs.setdefault('http_options', ...) in place of line 96
NewInitKeepsCallerOptions(kwargs) ==
    LET api_key == ApiKeyPlaintext(settings.GEMINI_API_KEY)
        k1 == DictSet(kwargs, "api_key", api_key)
    IN IF "http_options" \in DOMAIN kwargs THEN k1
       ELSE DictSet(k1, "http_options", HttpOptions(Normalize(settings.GEMINI_BASE_URL)))

\* lines 82-96: the kwargs new_init hands on, read from settings at the call
NewInit(kwargs) ==
    LET api_key == ApiKeyPlaintext(settings.GEMINI_API_KEY)
        k1 == DictSet(kwargs, "api_key", api_key)                     \* line 89
        base_url == Normalize(settings.GEMINI_BASE_URL)               \* lines 92-94
    IN DictSet(k1, "http_options", HttpOptions(base_url))             \* line 96

\* line 98: each wrapper calls the __init__ it replaced; the original ends the chain
RECURSIVE CallInit(_, _)
CallInit(chain, kwargs) ==
    IF chain = <<>> THEN kwargs
    ELSE CallInit(SubSeq(chain, 1, Len(chain) - 1), NewInit(kwargs))

\* line 97: one log line per wrapper
InitLog(chain) ==
    [i \in 1..Len(chain) |->
        [level |-> "INFO", model |-> settings.GEMINI_MODEL,
         address |-> Normalize(settings.GEMINI_BASE_URL)]]

\* genai.Client(**kw)
Construct ==
    /\ ClientAvailable
    /\ Len(clients) < MaxClients
    /\ \E kw \in CallerKwargs :
          clients' = Append(clients,
              [supplied |-> kw,
               received |-> CallInit(Client_init, kw),
               log |-> InitLog(Client_init)])
    /\ UNCHANGED <<settings, Client_init, AsyncFiles_upload, AsyncModels_generate_content,
                   file_cache, library, last_install, pending, returned, last_generate,
                   last_error>>

\* genai.Client(**kw) whose original __init__ raises (line 98)
ConstructRaises ==
    /\ ClientAvailable
    /\ \E e \in InitErrors : last_error' = Failure("init", Client_init, e)
    /\ UNCHANGED <<settings, Client_init, AsyncFiles_upload, AsyncModels_generate_content,
                   file_cache, library, last_install, clients, pending, returned,
                   last_generate>>

-----------------------------------------------------------------------------
(* Uploads. *)

Bytes == {"b1", "b2"}
Addr == 1..MaxAddr

BypassUri(a) == <<"bypass", a>>          \* line 117: f"bypass_{id(content)}"
RemoteUri == <<"files", 0>>              \* a name the backend gives to a real upload

\* a reference named by the backend, as the original upload returns it
FileNamedByBackend(uri) == [name |-> <<"files", 0>>, uri |-> uri, mime_type |-> "image/png"]

\* line 119: types.File(name=file_id, uri=file_id, mime_type="image/png")
File(uri) == [name |-> uri, uri |-> uri, mime_type |-> "image/png"]

\* the ways patched_upload obtains content without suspending (lines 110-113)
SyncKinds == {"stream", "path", "bytes"}

\* id() of an object that nothing keeps alive: any address, also one that a stored
\* content had
IdOfUnkept(content) == Addr

\* id(content): the address of the content object.  Objects alive at the same time
\* have different addresses; the caches keep every stored content alive.  The same
\* (immutable) object can be submitted again and then has the same address.
IdOf(content) ==
    { a \in Addr :
        \A k \in DOMAIN file_cache :
            BypassUri(a) \in DOMAIN file_cache[k] => file_cache[k][BypassUri(a)] = content }

\* line 118 as file_cache = {file_id: content}: the mapping holds the latest upload only
StoreOnlyLatest(k, content, a) ==
    /\ file_cache' = [file_cache EXCEPT ![k] = DictSet(EmptyDict, BypassUri(a), content)]
    /\ returned' = returned \cup {[ref |-> File(BypassUri(a)), bytes |-> content, via |-> k]}

\* content held in a variable that the suspended uploads share
StoreCrossed(k, content, a) ==
    /\ \E t \in pending \cup {[fn |-> k, data |-> content]} :
          file_cache' = [file_cache EXCEPT ![k] = DictSet(@, BypassUri(a), t.data)]
    /\ returned' = returned \cup {[ref |-> File(BypassUri(a)), bytes |-> content, via |-> k]}

\* lines 117-119 of patched_upload of run k, once content is there
Store(k, content, a) ==
    /\ file_cache' = [file_cache EXCEPT ![k] = DictSet(@, BypassUri(a), content)]
    /\ returned' = returned \cup {[ref |-> File(BypassUri(a)), bytes |-> content, via |-> k]}

\* await client.aio.files.upload(file=...) with a source that is read without suspending
UploadSync ==
    /\ AsyncFilesAvailable
    /\ \E kind \in SyncKinds, content \in Bytes :
          IF AsyncFiles_upload = 0
          THEN /\ returned' = returned \cup
                     {[ref |-> File(RemoteUri), bytes |-> content, via |-> 0]}
               /\ UNCHANGED file_cache
          ELSE \E a \in IdOf(content) : Store(AsyncFiles_upload, content, a)
    /\ UNCHANGED <<settings, Client_init, AsyncFiles_upload, AsyncModels_generate_content,
                   library, last_install, clients, pending, last_generate,
                   last_error>>

\* patched_upload with a source that cannot be read (lines 110-113 raise)
UploadReadFails ==
    /\ AsyncFilesAvailable
    /\ AsyncFiles_upload # 0
    /\ \E e \in ReadErrors : last_error' = UploadFailure(e)
    /\ UNCHANGED <<settings, Client_init, AsyncFiles_upload, AsyncModels_generate_content,
                   file_cache, library, last_install, clients, pending, returned,
                   last_generate>>

\* what content is after line 115 when read() returned an awaitable that is not a
\* coroutine (a Future, a Task): asyncio.iscoroutine is false of it, it is not
\* awaited, and content is the awaitable itself
Unawaited == "awaitable"

\* patched_upload with such a source: lines 110, 117-119, with no suspension
UploadUnawaited ==
    /\ AsyncFilesAvailable
    /\ AsyncFiles_upload # 0
    /\ \E a \in IdOf(Unawaited) : Store(AsyncFiles_upload, Unawaited, a)
    /\ UNCHANGED <<settings, Client_init, AsyncFiles_upload, AsyncModels_generate_content,
                   library, last_install, clients, pending, last_generate, last_error>>

\* patched_upload with a source whose read() returns a coroutine: suspends at line 115
UploadAwait ==
    /\ AsyncFilesAvailable
    /\ AsyncFiles_upload # 0
    /\ Cardinality(pending) < MaxPending
    /\ \E content \in Bytes :
          /\ [fn |-> AsyncFiles_upload, data |-> content] \notin pending
          /\ pending' = pending \cup {[fn |-> AsyncFiles_upload, data |-> content]}
    /\ UNCHANGED <<settings, Client_init, AsyncFiles_upload, AsyncModels_generate_content,
                   file_cache, library, last_install, clients, returned, last_generate,
                   last_error>>

\* the awaited read completes: lines 115-119
UploadResume ==
    /\ \E t \in pending :
          /\ \E a \in IdOf(t.data) : Store(t.fn, t.data, a)
          /\ pending' = pending \ {t}
    /\ UNCHANGED <<settings, Client_init, AsyncFiles_upload, AsyncModels_generate_content,
                   library, last_install, clients, last_generate,
                   last_error>>

\* the awaited read raises, or the task is cancelled while suspended at line 115:
\* the exception leaves patched_upload from line 115
UploadAbort ==
    /\ \E t \in pending, e \in ReadErrors \cup {CancelledError} :
          /\ pending' = pending \ {t}
          /\ last_error' = UploadFailure(e)
    /\ UNCHANGED <<settings, Client_init, AsyncFiles_upload, AsyncModels_generate_content,
                   file_cache, library, last_install, clients, returned, last_generate>>

-----------------------------------------------------------------------------
(* generate_content. *)

TextPart == [kind |-> "text", text |-> "t"]
InlinePart(data, mime) == [kind |-> "inline_data", data |-> data, mime_type |-> mime]
FilePart(uri) == [kind |-> "file_data", file_uri |-> uri, mime_type |-> "image/png"]

Parts == {TextPart, InlinePart("b1", "image/jpeg"), FilePart(RemoteUri)}
            \cup {FilePart(BypassUri(a)) : a \in Addr}

SeqsUpTo(S, n) == UNION {[1..m -> S] : m \in 0..n}

Content(parts) == [role |-> "user", parts |-> parts]
Contents == {Content(ps) : ps \in SeqsUpTo(Parts, MaxParts)}

\* the shapes of the contents argument: a list of Content, one Content (held here
\* in a tuple of one), a list of parts
Requests ==
    {[shape |-> "list", value |-> cs] : cs \in [1..1 -> Contents] \cup [1..2 -> Contents]}
      \cup {[shape |-> "content", value |-> <<c>>] : c \in Contents}
      \cup {[shape |-> "parts", value |-> c.parts] : c \in Contents}

\* line 123: _contents_to_list(contents), the library's own normalization
ContentsToList(req) ==
    CASE req.shape = "list" -> req.value
      [] req.shape = "content" -> <<req.value[1]>>
      [] req.shape = "parts" -> <<Content(req.value)>>

\* lines 125-128 without the replacement
RewritePartNever(part, cache) == part

\* line 126 without the test for the mapping: every file reference is replaced
RewritePartEveryFile(part, cache) ==
    IF part.kind = "file_data"
    THEN InlinePart(IF part.file_uri \in DOMAIN cache THEN cache[part.file_uri] ELSE "",
                    "image/png")
    ELSE part

\* lines 126-128: a part that refers to a cached upload becomes inline bytes
RewritePart(part, cache) ==
    IF part.kind = "file_data" /\ part.file_uri \in DOMAIN cache
    THEN InlinePart(cache[part.file_uri], "image/png")
    ELSE part

\* lines 123-128 of patched_generate of run k
Rewritten(k, req) ==
    LET normalized == ContentsToList(req)
    IN [shape |-> "list",
        value |-> [i \in DOMAIN normalized |->
                      [normalized[i] EXCEPT !.parts =
                          [j \in DOMAIN @ |-> RewritePart(@[j], file_cache[k])]]]]

\* a later wrapper that is not entered: only the first run's wrapper rewrites
CallGenerateFirstOnly(chain, req) ==
    IF chain = <<>> THEN req ELSE Rewritten(chain[1], req)

\* line 129: each wrapper calls the generate_content it replaced; the original ends the chain
RECURSIVE CallGenerate(_, _)
CallGenerate(chain, req) ==
    IF chain = <<>> THEN req
    ELSE CallGenerate(SubSeq(chain, 1, Len(chain) - 1), Rewritten(chain[Len(chain)], req))

\* the model argument and the keyword options of a generate_content call
GenerateKwargs == {[config |-> "cfg"]}
GenerateArgs == [model : {GEMINI_MODEL}, kwargs : GenerateKwargs]

\* line 129: model and **kwargs are handed on as they were received
PassArgs(args) == args

RECURSIVE CallGenerateArgs(_, _)
CallGenerateArgs(chain, args) ==
    IF chain = <<>> THEN args
    ELSE CallGenerateArgs(SubSeq(chain, 1, Len(chain) - 1), PassArgs(args))

UrisOf(req) ==
    LET cs == ContentsToList(req)
    IN { cs[i].parts[j].file_uri :
            <<i, j>> \in { <<i, j>> \in (DOMAIN cs) \X (1..MaxParts) :
                             j \in DOMAIN cs[i].parts /\ cs[i].parts[j].kind = "file_data" } }

NoArgs == [model |-> "none", kwargs |-> EmptyDict]

NoCall == [request |-> [shape |-> "none", value |-> <<>>],
           sent |-> [shape |-> "none", value |-> <<>>],
           known |-> {},
           args |-> NoArgs, sent_args |-> NoArgs, chain |-> <<>>]

\* await client.aio.models.generate_content(model=..., contents=req): the wrappers run
\* and the original implementation is entered (line 129)
Generate ==
    /\ AsyncModelsAvailable
    /\ last_generate = NoCall
    /\ \E req \in Requests, args \in GenerateArgs :
          last_generate' =
              [request |-> req,
               sent |-> CallGenerate(AsyncModels_generate_content, req),
               known |-> {r \in returned : r.ref.uri \in UrisOf(req)},
               args |-> args,
               sent_args |-> CallGenerateArgs(AsyncModels_generate_content, args),
               chain |-> AsyncModels_generate_content]
    /\ UNCHANGED <<settings, Client_init, AsyncFiles_upload, AsyncModels_generate_content,
                   file_cache, library, last_install, clients, pending, returned,
                   last_error>>

\* the original implementation returns and its result is handed back (line 129)
GenerateReturn ==
    /\ last_generate # NoCall
    /\ last_generate' = NoCall
    /\ UNCHANGED <<settings, Client_init, AsyncFiles_upload, AsyncModels_generate_content,
                   file_cache, library, last_install, clients, pending, returned,
                   last_error>>

\* the original implementation raises, or the call is cancelled while it is awaited
\* (line 129)
GenerateRaises ==
    /\ last_generate # NoCall
    /\ \E e \in GenerateErrors \cup {CancelledError} :
          last_error' = Failure("generate", last_generate.chain, e)
    /\ last_generate' = NoCall
    /\ UNCHANGED <<settings, Client_init, AsyncFiles_upload, AsyncModels_generate_content,
                   file_cache, library, last_install, clients, pending, returned>>

-----------------------------------------------------------------------------
(* The program. *)

InitWith(keys, urls) ==
    /\ settings \in [GEMINI_API_KEY : keys, GEMINI_BASE_URL : urls,
                     GEMINI_MODEL : {GEMINI_MODEL}]
    /\ Client_init = <<>>
    /\ AsyncFiles_upload = 0
    /\ AsyncModels_generate_content = <<>>
    /\ file_cache = [k \in 1..MaxInstalls |-> EmptyDict]
    /\ library \in Libraries
    /\ last_install = [run |-> 0, enabled |-> FALSE, log |-> <<>>, raised |-> "none",
                       before |-> Originals]
    /\ clients = <<>>
    /\ pending = {}
    /\ returned = {}
    /\ last_generate = NoCall
    /\ last_error = NoError

Init == InitWith(ApiKeys, BaseUrls)

Next ==
    \/ Install
    \/ SetBaseUrl(BaseUrls)
    \/ Construct
    \/ ConstructRaises
    \/ UploadSync
    \/ UploadReadFails
    \/ UploadUnawaited
    \/ UploadAwait
    \/ UploadResume
    \/ UploadAbort
    \/ Generate
    \/ GenerateReturn
    \/ GenerateRaises

Spec == Init /\ [][Next]_vars

\* Construction reads and writes nothing that uploads and generate_content touch, and
\* conversely; the two halves of the program are checked apart.
CtorNext ==
    \/ Install
    \/ SetBaseUrl(BaseUrls)
    \/ Construct

CtorSpec == Init /\ [][CtorNext]_vars

FilesInit == InitWith({NoneKey, SecretStr("sk-cfg")}, {AIHUBMIX})

FilesNext ==
    \/ Install
    \/ UploadSync
    \/ UploadAwait
    \/ UploadResume
    \/ Generate
    \/ GenerateReturn

FilesSpec == FilesInit /\ [][FilesNext]_vars

-----------------------------------------------------------------------------
(* Endpoint normalization as a function of the configured base URL. *)

RECURSIVE Concat(_)
Concat(ss) == IF ss = <<>> THEN <<>> ELSE ss[1] \o Concat(SubSeq(ss, 2, Len(ss)))

Pieces == { <<"/">>, SLASH_V1, SLASH_GEMINI, <<"a">>, <<"v", "1">>, <<"/", "v">> }

\* base-URL strings: every concatenation of at most MaxPieces pieces
UrlStrings == { Concat(ss) : ss \in SeqsUpTo(Pieces, MaxPieces) }

\* the program after one complete run of the installer
InstalledWith(urls) ==
    /\ settings \in [GEMINI_API_KEY : {SecretStr("sk-cfg")}, GEMINI_BASE_URL : urls,
                     GEMINI_MODEL : {GEMINI_MODEL}]
    /\ Client_init = <<1>>
    /\ AsyncFiles_upload = 1
    /\ AsyncModels_generate_content = <<1>>
    /\ file_cache = [k \in 1..MaxInstalls |-> EmptyDict]
    /\ library = NoFailure
    /\ last_install = [run |-> 1, enabled |-> TRUE, log |-> Handled(NoFailure).log,
                       raised |-> "none", before |-> Originals]
    /\ clients = <<>>
    /\ pending = {}
    /\ returned = {}
    /\ last_generate = NoCall
    /\ last_error = NoError

\* ... for any base URL
NormInit == InstalledWith(UrlStrings)

NormNext == Construct

NormSpec == NormInit /\ [][NormNext]_vars

-----------------------------------------------------------------------------
(* Calls through the installed interceptors, the failing and the cancelled ones    *)
(* among them.                                                                     *)

FailInit == InstalledWith({AIHUBMIX})

FailNext ==
    \/ ConstructRaises
    \/ UploadSync
    \/ UploadReadFails
    \/ UploadUnawaited
    \/ UploadAwait
    \/ UploadResume
    \/ UploadAbort
    \/ Generate
    \/ GenerateReturn
    \/ GenerateRaises

FailSpec == FailInit /\ [][FailNext]_vars

-----------------------------------------------------------------------------
(* The installer run twice before the library is used. *)

TwiceInit == InitWith({SecretStr("sk-cfg")}, {AIHUBMIX})

TwiceNext ==
    \/ Install
    \/ /\ last_install.run >= 2
       /\ \/ Construct
          \/ UploadSync
          \/ UploadAwait
          \/ UploadResume
          \/ Generate
          \/ GenerateReturn

TwiceSpec == TwiceInit /\ [][TwiceNext]_vars

-----------------------------------------------------------------------------
(* Vocabulary of the properties. *)

Range(f) == {f[i] : i \in DOMAIN f}

\* a credential is configured: the key is there and is not empty
HasCredential == settings.GEMINI_API_KEY # NoneKey /\ settings.GEMINI_API_KEY.value # ""

ConfiguredKey == settings.GEMINI_API_KEY.value

\* the installer has returned at least once
InstallerHasRun == last_install.run > 0

\* this step is one call of genai.Client(...)
Constructs == Len(clients') = Len(clients) + 1

NewClient == clients'[Len(clients')]

\* u without its trailing slashes: the prefix that ends at the last character that
\* is not a slash
WithoutTrailingSlashes(u) ==
    LET n == CHOOSE m \in 0..Len(u) :
                 /\ m = 0 \/ u[m] # "/"
                 /\ \A i \in (m + 1)..Len(u) : u[i] = "/"
    IN SubSeq(u, 1, n)

\* u without one trailing slash
WithoutOneTrailingSlash(u) ==
    IF Len(u) > 0 /\ u[Len(u)] = "/" THEN SubSeq(u, 1, Len(u) - 1) ELSE u

WithoutSuffix(u, suffix) ==
    IF EndsWith(u, suffix) THEN SubSeq(u, 1, Len(u) - Len(suffix)) ELSE u

WithSuffix(u, suffix) == IF EndsWith(u, suffix) THEN u ELSE u \o suffix

\* the three-step rule, step (1) removing one trailing slash
RuleOneSlash(u) ==
    WithSuffix(WithoutSuffix(WithoutOneTrailingSlash(u), SLASH_V1), SLASH_GEMINI)

\* the three-step rule, step (1) removing every trailing slash
RuleAllSlashes(u) ==
    WithSuffix(WithoutSuffix(WithoutTrailingSlashes(u), SLASH_V1), SLASH_GEMINI)

Endpoint(client) == client.received.http_options.base_url

-----------------------------------------------------------------------------
(* C1: once the installer has run with a credential configured, every call of   *)
(* genai.Client(...) hands the configured key to the original __init__, whatever *)
(* the caller passed; a different key supplied by the caller is never used.      *)
C1_ConfiguredKeyAlwaysUsed ==
    [][ (InstallerHasRun /\ HasCredential /\ Constructs) =>
            /\ "api_key" \in DOMAIN NewClient.received
            /\ NewClient.received.api_key = ConfiguredKey
            /\ \A k \in DOMAIN NewClient.supplied \ {"api_key", "http_options"} :
                   NewClient.received[k] = NewClient.supplied[k]
      ]_vars

\* a caller passed its own key and the original __init__ received the configured one
C1_Witness ==
    \E i \in DOMAIN clients :
        /\ "api_key" \in DOMAIN clients[i].supplied
        /\ clients[i].supplied.api_key = "sk-caller"
        /\ clients[i].received.api_key = "sk-cfg"

(* C2: after installation every construction hands the original __init__ the     *)
(* endpoint normalized from the base URL configured at that moment, whatever     *)
(* transport options the caller passed; clients constructed earlier keep what    *)
(* they were given when the base URL changes later.                              *)
C2_EndpointFromCurrentBaseUrl ==
    [][ /\ Len(clients') >= Len(clients)
        /\ \A i \in DOMAIN clients : clients'[i] = clients[i]
        /\ (InstallerHasRun /\ HasCredential /\ Constructs) =>
               NewClient.received.http_options =
                   HttpOptions(RuleAllSlashes(settings.GEMINI_BASE_URL))
      ]_vars

\* the base URL changed between two constructions: the second client has the new
\* endpoint, in place of the options its caller passed, and the first keeps the old one
C2_Witness ==
    /\ Len(clients) = 2
    /\ \A i \in {1, 2} : Len(clients[i].log) > 0
    /\ "http_options" \in DOMAIN clients[1].supplied
    /\ "http_options" \in DOMAIN clients[2].supplied
    /\ Endpoint(clients[1]) # Endpoint(clients[2])
    /\ Endpoint(clients[1]) # RuleAllSlashes(settings.GEMINI_BASE_URL)
    /\ Endpoint(clients[2]) = RuleAllSlashes(settings.GEMINI_BASE_URL)

\* the optional pair cannot be installed: one of its steps is the library's missing piece
PairFails == library.step >= StepNo("import_contents_to_list")

InstalledByLastRun == last_install.run \in Range(Client_init)

(* C3: if installing the upload / content-rewrite pair fails, the constructor     *)
(* interceptor is installed when the installer returns, and every later           *)
(* construction gets the configured key and the normalized endpoint.              *)
C3_RedirectionSurvivesPairFailure ==
    [][ (PairFails /\ HasCredential) =>
            /\ InstallerHasRun => InstalledByLastRun
            /\ InstallerHasRun' => InstalledByLastRun'
            /\ (InstallerHasRun /\ Constructs) =>
                   /\ NewClient.received.api_key = ConfiguredKey
                   /\ NewClient.received.http_options =
                          HttpOptions(RuleAllSlashes(settings.GEMINI_BASE_URL))
      ]_vars

\* the pair failed to install, and a client constructed afterwards was redirected
C3_Witness ==
    /\ PairFails
    /\ InstallerHasRun
    /\ AsyncFiles_upload = 0
    /\ AsyncModels_generate_content = <<>>
    /\ \E i \in DOMAIN clients :
          /\ Len(clients[i].log) > 0
          /\ clients[i].supplied # EmptyDict
          /\ clients[i].received.api_key = "sk-cfg"

-----------------------------------------------------------------------------
\* the parts of the request in flight, as the wrapper walks them, and of what it sent on
RequestParts(i) == ContentsToList(last_generate.request)[i].parts
SentParts(i) == last_generate.sent.value[i].parts

(* C4: with the pair installed, once an upload of bytes b has returned reference  *)
(* r, every later generate_content call that refers to r enters the original      *)
(* implementation with an inline part carrying b in the place of each such part,  *)
(* and with no file reference to r left.                                          *)
C4_UploadedBytesAreInlined ==
    last_generate # NoCall =>
        \A up \in last_generate.known :
            up.via # 0 =>
                /\ last_generate.sent.shape = "list"
                /\ DOMAIN last_generate.sent.value = DOMAIN ContentsToList(last_generate.request)
                /\ \A i \in DOMAIN last_generate.sent.value :
                      /\ DOMAIN SentParts(i) = DOMAIN RequestParts(i)
                      /\ \A j \in DOMAIN SentParts(i) :
                            /\ RequestParts(i)[j] = FilePart(up.ref.uri) =>
                                  SentParts(i)[j] = InlinePart(up.bytes, "image/png")
                            /\ ~ ( /\ SentParts(i)[j].kind = "file_data"
                                   /\ SentParts(i)[j].file_uri = up.ref.uri )

\* a request in flight refers in two content blocks to an upload made through the
\* interceptor, and the original implementation received the bytes in both places
C4_Witness ==
    /\ last_generate # NoCall
    /\ last_generate.request.shape = "list"
    /\ Len(last_generate.request.value) = 2
    /\ \E up \in last_generate.known :
          /\ up.via # 0
          /\ up.bytes = "b2"
          /\ RequestParts(1) = <<FilePart(up.ref.uri)>>
          /\ RequestParts(2) = <<FilePart(up.ref.uri)>>
          /\ SentParts(1) = <<InlinePart("b2", "image/png")>>
          /\ SentParts(2) = <<InlinePart("b2", "image/png")>>

(* C5: with no credential configured the installer changes nothing: the three     *)
(* entry points of the library are the objects they were, and nothing is logged.  *)
C5_NoCredentialNoPatch ==
    ~HasCredential =>
        /\ EntryPoints = Originals
        /\ InstallerHasRun =>
              /\ EntryPoints = last_install.before
              /\ last_install.log = <<>>
              /\ last_install.raised = "none"

\* the installer has run without a credential on a library it could have patched
C5_Witness ==
    /\ InstallerHasRun
    /\ ~HasCredential
    /\ settings.GEMINI_API_KEY = SecretStr("")
    /\ library = NoFailure
    /\ Len(clients) > 0

(* C6: whichever step of the installer fails, no exception leaves the installer.  *)
C6_InstallerNeverRaises ==
    last_install.raised = "none"

\* the installer met an exception that its inner handler does not take
C6_Witness ==
    /\ InstallerHasRun
    /\ last_install.enabled
    /\ library.step = StepNo("read_generate_content")
    /\ library.exc = "AttributeError"

(* C7: whenever what the pair depends on is absent, the failure is taken by the   *)
(* pair's own handler and logged as a warning, not as an error, and the           *)
(* constructor interceptor stays installed.                                       *)
C7_PairFailureIsAWarning ==
    (InstallerHasRun /\ last_install.enabled /\ PairFails) =>
        /\ InstalledByLastRun
        /\ last_install.log # <<>>
        /\ \A i \in DOMAIN last_install.log : last_install.log[i].level = "WARNING"

\* the constructor interceptor cannot be installed: the library, or genai.Client, is missing
CtorFails == library.step \in 1..StepNo("set_Client_init")

(* C8: if the library cannot be located or installing the constructor interceptor *)
(* raises, the installer logs an error and returns with none of the three         *)
(* interceptors installed; the pair is never installed by a run that did not      *)
(* install the constructor interceptor first.                                     *)
C8_NothingWithoutConstructor ==
    /\ (InstallerHasRun /\ last_install.enabled /\ CtorFails) =>
          /\ EntryPoints = Originals
          /\ Len(last_install.log) = 1
          /\ last_install.log[1].level = "ERROR"
    /\ AsyncFiles_upload # 0 => AsyncFiles_upload \in Range(Client_init)
    /\ Range(AsyncModels_generate_content) \subseteq Range(Client_init)

\* the library has no genai.Client: the installer ran, with a credential, and left
\* the library as it was
C8_Witness ==
    /\ InstallerHasRun
    /\ last_install.enabled
    /\ library.step = StepNo("read_Client_init")
    /\ EntryPoints = Originals

-----------------------------------------------------------------------------
(* C9: normalization is idempotent: normalizing the endpoint that a construction  *)
(* computed gives that endpoint again.                                            *)
C9_NormalizeIdempotent ==
    \A i \in DOMAIN clients :
        Normalize(Endpoint(clients[i])) = Endpoint(clients[i])

\* a construction whose endpoint differs from the configured base URL by more than
\* the appended suffix
C9_Witness ==
    \E i \in DOMAIN clients :
        /\ Endpoint(clients[i]) # settings.GEMINI_BASE_URL
        /\ Endpoint(clients[i]) # settings.GEMINI_BASE_URL \o SLASH_GEMINI
        /\ EndsWith(RStrip(settings.GEMINI_BASE_URL, "/"), SLASH_V1)

(* C10 as stated: the endpoint is the base URL with one trailing slash removed,  *)
(* then a trailing /v1 removed, then /gemini appended unless it ends with it.     *)
C10_RuleWithOneSlash ==
    \A i \in DOMAIN clients :
        Endpoint(clients[i]) = RuleOneSlash(settings.GEMINI_BASE_URL)

(* C10 amended: the endpoint is the base URL with every trailing slash removed,   *)
(* then a trailing /v1 removed, then /gemini appended unless it ends with it.     *)
C10_RuleWithAllSlashes ==
    \A i \in DOMAIN clients :
        Endpoint(clients[i]) = RuleAllSlashes(settings.GEMINI_BASE_URL)

\* a base URL that ends with several slashes after /v1 has been constructed from
C10_Witness ==
    /\ clients # <<>>
    /\ EndsWith(settings.GEMINI_BASE_URL, SLASH_V1 \o <<"/", "/">>)
    /\ Endpoint(clients[1]) = SLASH_GEMINI

-----------------------------------------------------------------------------
(* The documented examples of the endpoint. *)

HTTPS_AIHUBMIX_COM == <<"h", "t", "t", "p", "s", ":", "/", "/", "a", "i", "h", "u", "b",
                        "m", "i", "x", ".", "c", "o", "m">>

ExampleBaseUrls == { HTTPS_AIHUBMIX_COM \o <<"/">>,
                     HTTPS_AIHUBMIX_COM \o <<"/", "v", "1">>,
                     HTTPS_AIHUBMIX_COM \o <<"/", "g", "e", "m", "i", "n", "i">> }

ExampleEndpoint == HTTPS_AIHUBMIX_COM \o <<"/", "g", "e", "m", "i", "n", "i">>

\* the latest construction went through new_init
Patched(client) == Len(client.log) > 0

(* C11: a client constructed while the base URL is https://aihubmix.com/,         *)
(* https://aihubmix.com/v1 or https://aihubmix.com/gemini gets the endpoint       *)
(* https://aihubmix.com/gemini.                                                   *)
C11_ExamplesNormalize ==
    [][ Constructs /\ Patched(NewClient) /\ settings.GEMINI_BASE_URL \in ExampleBaseUrls
            => Endpoint(NewClient) = ExampleEndpoint ]_vars

\* clients were constructed under two different example URLs, the second ending in /v1
C11_Witness ==
    /\ Len(clients) = 2
    /\ Patched(clients[1]) /\ Patched(clients[2])
    /\ settings.GEMINI_BASE_URL = HTTPS_AIHUBMIX_COM \o <<"/", "v", "1">>
    /\ Endpoint(clients[1]) = ExampleEndpoint
    /\ Endpoint(clients[2]) = ExampleEndpoint

-----------------------------------------------------------------------------
(* The optional pair. *)

UploadIntercepted == AsyncFiles_upload # 0
GenerateIntercepted == AsyncModels_generate_content # <<>>

(* C19: in every state in which the installer has returned, the upload entry      *)
(* point is the interceptor exactly when the generate_content entry point is, and  *)
(* the two interceptors come from the same run of the installer.                   *)
C19_PairInstalledTogether ==
    InstallerHasRun =>
        /\ UploadIntercepted <=> GenerateIntercepted
        /\ UploadIntercepted =>
              AsyncModels_generate_content[Len(AsyncModels_generate_content)]
                  = AsyncFiles_upload

\* the installer returned after failing inside the pair, and neither was replaced
C19_Witness ==
    /\ InstallerHasRun
    /\ last_install.enabled
    /\ library.step >= StepNo("import_contents_to_list")
    /\ Client_init # <<>>
    /\ ~UploadIntercepted /\ ~GenerateIntercepted


-----------------------------------------------------------------------------
(* Synthetic references. *)

\* the uploads that patched_upload has answered
Bypassed == {u \in returned : u.via # 0}

(* C12: two uploads answered by the interceptor whose bytes differ were given      *)
(* different references, and every reference handed out still maps, in the        *)
(* mapping of the interceptor that issued it, to the bytes of its upload: no key   *)
(* has been reused for other bytes.                                                *)
C12_DifferentBytesDifferentRefs ==
    /\ \A u1, u2 \in Bypassed : u1.bytes # u2.bytes => u1.ref # u2.ref
    /\ \A u \in Bypassed :
          /\ u.ref.uri \in DOMAIN file_cache[u.via]
          /\ file_cache[u.via][u.ref.uri] = u.bytes

\* both byte strings have been uploaded through the interceptors of two installer runs
C12_Witness ==
    /\ \E u1, u2 \in Bypassed : u1.bytes # u2.bytes /\ u1.via # u2.via
    /\ Cardinality(Bypassed) = MaxAddr


-----------------------------------------------------------------------------
(* Failures of the delegated calls. *)

(* C13: an exception raised by the original constructor or by the original        *)
(* generate_content reaches the caller of the intercepted call as it was raised,   *)
(* and the original was entered once.                                              *)
C13_OriginalFailureReachesCaller ==
    last_error.call \in {"init", "generate"} =>
        /\ last_error.reached = last_error.raised
        /\ last_error.calls = 1

\* the original generate_content raised after a request with an uploaded file went
\* through the wrapper, and the caller got that exception
C13_Witness ==
    /\ last_error.call = "generate"
    /\ last_error.raised = "APIError"
    /\ last_error.reached = "APIError"
    /\ Bypassed # {}

-----------------------------------------------------------------------------
(* The upload interceptor. *)

IsBypassRef(ref) ==
    /\ \E a \in Addr : ref.name = <<"bypass", a>>
    /\ ref.uri = ref.name
    /\ ref.mime_type = "image/png"

(* C14: once the upload interceptor is installed it stays installed, and every     *)
(* upload answered from then on is answered by an interceptor, never by the        *)
(* original upload: the bytes are in the mapping under the synthetic id, and the   *)
(* reference has that id as name and uri and the mime type image/png.              *)
C14_UploadStaysLocal ==
    [][ UploadIntercepted =>
            /\ UploadIntercepted'
            /\ \A u \in returned' \ returned :
                  /\ u.via # 0
                  /\ IsBypassRef(u.ref)
                  /\ u.ref.uri \in DOMAIN file_cache'[u.via]
                  /\ file_cache'[u.via][u.ref.uri] = u.bytes
      ]_vars

\* an upload went to the backend before the installer ran, and one made afterwards
\* was kept local
C14_Witness ==
    /\ UploadIntercepted
    /\ \E u0, u1 \in returned :
          /\ u0.via = 0 /\ u0.ref.uri = RemoteUri
          /\ u1.via # 0 /\ IsBypassRef(u1.ref)
          /\ u0.bytes = u1.bytes

(* C15: an entry of the mapping stays, with the same bytes, through every later    *)
(* upload, generate_content call, failed call and cancelled call.                  *)
C15_MappingOnlyGrows ==
    [][ \A k \in DOMAIN file_cache :
            \A uri \in DOMAIN file_cache[k] :
                /\ uri \in DOMAIN file_cache'[k]
                /\ file_cache'[k][uri] = file_cache[k][uri]
      ]_vars

\* after a cancelled generate_content call, with two uploads in the mapping, a new
\* request gets the bytes of an upload inline
C15_Witness ==
    /\ last_error.call = "generate"
    /\ last_error.raised = CancelledError
    /\ Cardinality(Bypassed) = 2
    /\ last_generate # NoCall
    /\ \E up \in last_generate.known :
          /\ RequestParts(1) = <<FilePart(up.ref.uri)>>
          /\ SentParts(1) = <<InlinePart(up.bytes, "image/png")>>

-----------------------------------------------------------------------------
(* The content-rewrite interceptor. *)

\* the keys the mappings of the wrappers in the chain of the call in flight had when
\* the call was made, among the uris of the request
KnownUris == {u.ref.uri : u \in {x \in last_generate.known : x.via # 0}}

-----------------------------------------------------------------------------
(* Uploads that suspend. *)

\* every reference handed out maps to the bytes of its upload
RefsHoldTheirBytes ==
    \A u \in Bypassed :
        /\ u.ref.uri \in DOMAIN file_cache[u.via]
        /\ file_cache[u.via][u.ref.uri] = u.bytes

(* C17: whatever the interleaving of suspended uploads, other uploads and          *)
(* generate_content calls, an upload that completes returns a reference for the    *)
(* bytes it read itself, all references handed out so far map to the bytes of      *)
(* their own upload, and the other suspended uploads stay as they are.             *)
C17_UploadsDoNotCross ==
    [][ /\ RefsHoldTheirBytes'
        /\ \A t \in pending \ pending' :
              /\ pending' = pending \ {t}
              /\ \A u \in returned' \ returned : u.bytes = t.data /\ u.via = t.fn
      ]_vars

\* two uploads are suspended, a generate_content call is in flight, and an upload
\* has completed in the meantime
C17_Witness ==
    /\ Cardinality(pending) = 2
    /\ last_generate # NoCall
    /\ \E t \in pending, u \in Bypassed : u.bytes \in Bytes /\ u.bytes # t.data
    /\ Cardinality(Bypassed) = 2

\* an upload that fails or is cancelled changes the mapping in no way, and its
\* caller gets the exception of the read
FailedUploadLeavesMapping ==
    /\ (pending' # pending /\ returned' = returned) => file_cache' = file_cache
    /\ (last_error' # last_error /\ last_error'.call = "upload") =>
           /\ file_cache' = file_cache
           /\ returned' = returned
           /\ last_error'.reached = last_error'.raised
           /\ last_error'.raised \in ReadErrors \cup {CancelledError}

\* every entry of a mapping holds bytes that a read has returned
EntriesAreCompletedReads ==
    \A k \in DOMAIN file_cache :
        \A uri \in DOMAIN file_cache[k] : file_cache[k][uri] \in Bytes

(* C18: an upload whose read fails, or which is cancelled while its awaitable read *)
(* is suspended, hands that exception to its caller and leaves the mapping as it   *)
(* was; the mapping holds entries of reads that ran to completion only.            *)
C18_FailedUploadLeavesNoEntry ==
    [][ FailedUploadLeavesMapping /\ EntriesAreCompletedReads' ]_vars

-----------------------------------------------------------------------------
(* The installer run twice. *)

RanTwice == last_install.run >= 2

(* C20: after a second run of the installer with the same configuration, a client  *)
(* construction gets the configured key and the normalized endpoint, and a         *)
(* generate_content call that refers to an upload made since enters the original   *)
(* implementation with the bytes inline and no file reference to it.               *)
C20_SecondRunTolerated ==
    (RanTwice /\ HasCredential) =>
        /\ \A i \in DOMAIN clients :
              /\ clients[i].received.api_key = ConfiguredKey
              /\ clients[i].received.http_options =
                     HttpOptions(RuleAllSlashes(settings.GEMINI_BASE_URL))
        /\ last_generate # NoCall =>
              \A up \in last_generate.known :
                  up.via # 0 =>
                      \A i \in DOMAIN last_generate.sent.value :
                          \A j \in DOMAIN SentParts(i) :
                              /\ RequestParts(i)[j] = FilePart(up.ref.uri) =>
                                    SentParts(i)[j] = InlinePart(up.bytes, "image/png")
                              /\ SentParts(i)[j] # FilePart(up.ref.uri)

\* both runs installed their wrappers; a client was constructed through both, and
\* a request in flight refers to an upload made through the second run's interceptor
C20_Witness ==
    /\ last_install.run = 2
    /\ Client_init = <<1, 2>>
    /\ AsyncModels_generate_content = <<1, 2>>
    /\ Len(clients) > 0
    /\ Len(clients[1].log) = 2
    /\ clients[1].supplied # EmptyDict
    /\ last_generate # NoCall
    /\ \E up \in last_generate.known :
          /\ up.via = 2
          /\ RequestParts(1) = <<FilePart(up.ref.uri)>>
          /\ SentParts(1) = <<InlinePart(up.bytes, "image/png")>>

=============================================================================
